---- MODULE Spec2Model ----
(***************************************************************************)
(* Model of the simulation engine of src/src/App.js: the registries        *)
(* MODEL_PARAMS and POLLUTANT_MOD, predictRemoval, bayesianOptimize and    *)
(* computeSHAP, driven by a caller that invokes them with inputs drawn     *)
(* from small sets.                                                        *)
(*                                                                         *)
(* JavaScript numbers are IEEE-754 doubles.  They are modelled as decimal  *)
(* floating-point values with a signed mantissa of MantDigits digits and   *)
(* the special values NaN, +Infinity and -Infinity; the finite range is    *)
(* the range of a double, so that overflow to Infinity, underflow to 0 and *)
(* the NaN produced by 0 * Infinity happen where they happen in the code.  *)
(* Decimal literals of the source (0.18, 1.5, 0.92, ...) are exact here.   *)
(***************************************************************************)
EXTENDS Integers, Sequences, FiniteSets, TLC

\* ------------------------------------------------------------------------
\* Numbers
\* ------------------------------------------------------------------------

\* the number of decimal digits of a mantissa
MantDigits == 8

Pow10(n) == <<1, 10, 100, 1000, 10000, 100000, 1000000, 10000000, 100000000,
              1000000000>>[n + 1]

MantMin == Pow10(MantDigits - 1)
MantMax == Pow10(MantDigits)
Limb == Pow10(MantDigits \div 2)

NaN == [k |-> "nan", m |-> 0, e |-> 0]
PosInf == [k |-> "inf", m |-> 1, e |-> 0]
NegInf == [k |-> "inf", m |-> -1, e |-> 0]
Zero == [k |-> "fin", m |-> 0, e |-> 0]

IsNaN(x) == x.k = "nan"
IsInf(x) == x.k = "inf"
IsFin(x) == x.k = "fin"

\* the one element of a singleton set.  The operators below bind their
\* arguments with {e : x \in {a}}, so that an argument is evaluated once
\* however often the operator uses it.
The(S) == CHOOSE r \in S : TRUE

AbsInt(n) == IF n < 0 THEN -n ELSE n
SgnInt(n) == IF n < 0 THEN -1 ELSE IF n = 0 THEN 0 ELSE 1
Sign(x) == SgnInt(x.m)
InfOf(s) == IF s < 0 THEN NegInf ELSE PosInf

\* the largest finite double is 1.7976931348623157e308, the smallest
\* positive one 4.9e-324 (half of it rounds to 0)
MaxExp == 301
MaxMantAtMaxExp == 17976931
MinExp == 331
MinMantAtMinExp == 24703282

\* a mantissa a0 (>= 0) of any size below 2^31 brought to MantDigits digits,
\* rounding to nearest; the result is <<mantissa, exponent>>
RECURSIVE NormAbs(_, _)
NormAbs(a0, e0) ==
    The({ IF a = 0 THEN <<0, 0>>
          ELSE IF a >= MantMax
               THEN IF a % 10 >= 5 THEN NormAbs(a \div 10 + 1, e + 1)
                                   ELSE NormAbs(a \div 10, e + 1)
          ELSE IF a < MantMin THEN NormAbs(a * 10, e - 1)
          ELSE <<a, e>> : a \in {a0}, e \in {e0} })

\* the number m0 * 10^e0 as a double: Infinity above the range, 0 below
Norm(m0, e0) ==
    The({ IF n[1] = 0 THEN Zero
          ELSE IF n[2] > MaxExp \/ (n[2] = MaxExp /\ n[1] > MaxMantAtMaxExp)
               THEN InfOf(m)
          ELSE IF n[2] < -MinExp \/ (n[2] = -MinExp /\ n[1] < MinMantAtMinExp)
               THEN Zero
          ELSE [k |-> "fin", m |-> SgnInt(m) * n[1], e |-> n[2]]
          : m \in {m0}, n \in {NormAbs(AbsInt(m0), e0)} })

\* the decimal literal n / 10^d, and the integer n
Dec(n, d) == Norm(n, -d)
Int2Num(n) == Norm(n, 0)
One == Int2Num(1)

\* -x and Math.abs(x)
Neg(x0) ==
    The({ IF IsNaN(x) THEN NaN ELSE [k |-> x.k, m |-> -x.m, e |-> x.e]
          : x \in {x0} })
MathAbs(x0) ==
    The({ IF IsNaN(x) THEN NaN ELSE [k |-> x.k, m |-> AbsInt(x.m), e |-> x.e]
          : x \in {x0} })

\* x < y on finite numbers
LtFin(x, y) ==
    IF Sign(x) # Sign(y) THEN Sign(x) < Sign(y)
    ELSE IF Sign(x) = 0 THEN FALSE
    ELSE IF Sign(x) > 0
         THEN x.e < y.e \/ (x.e = y.e /\ x.m < y.m)
         ELSE x.e > y.e \/ (x.e = y.e /\ x.m < y.m)

\* the comparisons of JavaScript: every comparison with NaN is false
Lt(x0, y0) ==
    \E x \in {x0}, y \in {y0} :
        IF IsNaN(x) \/ IsNaN(y) THEN FALSE
        ELSE IF IsInf(x) THEN x.m < 0 /\ ~(IsInf(y) /\ y.m < 0)
        ELSE IF IsInf(y) THEN y.m > 0
        ELSE LtFin(x, y)
Gt(x, y) == Lt(y, x)
NumEq(x0, y0) == \E x \in {x0}, y \in {y0} : ~IsNaN(x) /\ ~IsNaN(y) /\ x = y
Le(x0, y0) == \E x \in {x0}, y \in {y0} : Lt(x, y) \/ NumEq(x, y)
Ge(x, y) == Le(y, x)

\* x + y on finite numbers, x the one of larger magnitude
AddOrdered(x, y) ==
    IF y.m = 0 \/ x.e - y.e > MantDigits THEN x
    ELSE Norm(x.m * 10
              + SgnInt(y.m) * ((AbsInt(y.m) * 10 + Pow10(x.e - y.e) \div 2)
                               \div Pow10(x.e - y.e)),
              x.e - 1)

Add(x0, y0) ==
    The({ IF IsNaN(x) \/ IsNaN(y) THEN NaN
          ELSE IF IsInf(x) THEN (IF IsInf(y) /\ y.m # x.m THEN NaN ELSE x)
          ELSE IF IsInf(y) THEN y
          ELSE IF x.m = 0 THEN y
          ELSE IF LtFin(MathAbs(x), MathAbs(y)) THEN AddOrdered(y, x)
          ELSE AddOrdered(x, y) : x \in {x0}, y \in {y0} })

Sub(x, y) == Add(x, Neg(y))

\* the product of two mantissas a and b as <<high, low>>, high * MantMax + low
MulParts(a, b) ==
    The({ <<(a \div Limb) * (b \div Limb) + mid \div Limb + low \div MantMax,
            low % MantMax>>
          : mid \in {(a \div Limb) * (b % Limb) + (a % Limb) * (b \div Limb)},
            low \in {(((a \div Limb) * (b % Limb) + (a % Limb) * (b \div Limb))
                      % Limb) * Limb + (a % Limb) * (b % Limb)} })

\* the product rounded to MantDigits digits, with its exponent
MulMant(a, b, e) ==
    The({ IF p[1] >= MantMin
          THEN <<p[1] + (IF 2 * p[2] >= MantMax THEN 1 ELSE 0), e + MantDigits>>
          ELSE <<p[1] * 10 + (p[2] + MantMin \div 2) \div MantMin,
                 e + MantDigits - 1>>
          : p \in {MulParts(a, b)} })

Mul(x0, y0) ==
    The({ IF IsNaN(x) \/ IsNaN(y) THEN NaN
          ELSE IF IsInf(x) \/ IsInf(y)
               THEN (IF Sign(x) * Sign(y) = 0 THEN NaN
                     ELSE InfOf(Sign(x) * Sign(y)))
          ELSE IF x.m = 0 \/ y.m = 0 THEN Zero
          ELSE The({ Norm(Sign(x) * Sign(y) * p[1], p[2])
                     : p \in {MulMant(AbsInt(x.m), AbsInt(y.m), x.e + y.e)} })
          : x \in {x0}, y \in {y0} })

\* n0 more digits of the quotient of the remainder r0 by b, appended to q0
RECURSIVE DivDigits(_, _, _, _)
DivDigits(r0, b, n0, q0) ==
    The({ IF n = 0 THEN (IF 2 * r >= b THEN q + 1 ELSE q)
          ELSE DivDigits((r * 10) % b, b, n - 1, q * 10 + (r * 10) \div b)
          : r \in {r0}, n \in {n0}, q \in {q0} })

Div(x0, y0) ==
    The({ IF IsNaN(x) \/ IsNaN(y) THEN NaN
          ELSE IF IsInf(x) THEN (IF IsInf(y) THEN NaN
                                 ELSE InfOf(x.m * (IF y.m < 0 THEN -1 ELSE 1)))
          ELSE IF IsInf(y) THEN Zero
          ELSE IF y.m = 0 THEN (IF x.m = 0 THEN NaN ELSE InfOf(x.m))
          ELSE IF x.m = 0 THEN Zero
          ELSE Norm(Sign(x) * Sign(y)
                    * DivDigits(AbsInt(x.m) % AbsInt(y.m), AbsInt(y.m),
                                MantDigits, AbsInt(x.m) \div AbsInt(y.m)),
                    x.e - y.e - MantDigits)
          : x \in {x0}, y \in {y0} })

\* the integer nearest to a finite x of magnitude below 10^9
NearestInt(x0) ==
    The({ IF x.e >= 0 THEN x.m * Pow10(x.e)
          ELSE IF -x.e > MantDigits THEN 0
          ELSE SgnInt(x.m) * ((AbsInt(x.m) + Pow10(-x.e) \div 2) \div Pow10(-x.e))
          : x \in {x0} })

\* the largest integer <= a finite x of magnitude below 10^9
FloorInt(x0) ==
    The({ IF x.e >= 0 THEN x.m * Pow10(x.e)
          ELSE The({ IF x.m >= 0 THEN x.m \div p
                     ELSE IF (-x.m) % p = 0 THEN -((-x.m) \div p)
                     ELSE -((-x.m) \div p) - 1
                     : p \in {IF -x.e > MantDigits THEN MantMax ELSE Pow10(-x.e)} })
          : x \in {x0} })

\* Math.exp overflows to Infinity above ln(MAX_VALUE) = 709.78271... and
\* underflows to 0 below ln(MIN_VALUE / 2) = -745.13321...
ExpOverflow == Dec(70978271, 5)
ExpUnderflow == Dec(-74513322, 5)
Ln10 == Dec(23025851, 7)
Log10E == Dec(43429448, 8)
ExpTerms == 12

\* a finite x divided by an integer k in 1..ExpTerms
DivSmall(x0, k) ==
    The({ Norm(SgnInt(x.m) * ((AbsInt(x.m) * 10 + k \div 2) \div k), x.e - 1)
          : x \in {x0} })

\* e^r by its series, innermost term first: acc is
\* 1 + r/(k+1) * (1 + r/(k+2) * (... (1 + r/ExpTerms)))
RECURSIVE ExpSeries(_, _, _)
ExpSeries(r, k0, acc0) ==
    The({ IF k = 0 \/ ~IsFin(acc) THEN acc
          ELSE ExpSeries(r, k - 1, Add(One, DivSmall(Mul(r, acc), k)))
          : k \in {k0}, acc \in {acc0} })

\* Math.exp(x) = 10^n * e^(x - n * ln 10) with n the integer nearest x / ln 10
MathExp(x0) ==
    The({ IF IsNaN(x) THEN NaN
          ELSE IF IsInf(x) THEN (IF x.m > 0 THEN PosInf ELSE Zero)
          ELSE IF LtFin(ExpOverflow, x) THEN PosInf
          ELSE IF LtFin(x, ExpUnderflow) THEN Zero
          ELSE The({ The({ Norm(s.m, s.e + n)
                           : s \in {ExpSeries(Sub(x, Mul(Int2Num(n), Ln10)),
                                               ExpTerms, One)} })
                     : n \in {NearestInt(Mul(x, Log10E))} })
          : x \in {x0} })

\* Math.round(x): the integer nearest x, halves towards +Infinity
MathRound(x0) ==
    The({ IF ~IsFin(x) \/ x.e >= 0 THEN x
          ELSE Int2Num(FloorInt(Add(x, Dec(5, 1)))) : x \in {x0} })

\* +x.toFixed(d): x rounded to d decimals, halves away from 0
ToFixed(x0, d) ==
    The({ IF ~IsFin(x) \/ x.e >= -d THEN x
          ELSE Norm(Sign(x) * FloorInt(Add(Norm(AbsInt(x.m), x.e + d), Dec(5, 1))),
                    -d)
          : x \in {x0} })

\* Math.max and Math.min return NaN when an argument is NaN
MathMax(x0, y0) ==
    The({ IF IsNaN(x) \/ IsNaN(y) THEN NaN ELSE IF Lt(x, y) THEN y ELSE x
          : x \in {x0}, y \in {y0} })
MathMin(x0, y0) ==
    The({ IF IsNaN(x) \/ IsNaN(y) THEN NaN ELSE IF Lt(y, x) THEN y ELSE x
          : x \in {x0}, y \in {y0} })

\* ------------------------------------------------------------------------
\* Registries
\* ------------------------------------------------------------------------

MODEL_PARAMS ==
    [MNCJG |-> [base |-> Int2Num(92), timeK |-> Dec(18, 2), phOpt |-> Dec(60, 1),
                phSens |-> Dec(35, 1), concDecay |-> Dec(8, 3), synergy |-> Int2Num(5)],
     MNC   |-> [base |-> Int2Num(78), timeK |-> Dec(14, 2), phOpt |-> Dec(60, 1),
                phSens |-> Dec(40, 1), concDecay |-> Dec(12, 3), synergy |-> Int2Num(0)],
     NC    |-> [base |-> Int2Num(55), timeK |-> Dec(10, 2), phOpt |-> Dec(55, 1),
                phSens |-> Dec(50, 1), concDecay |-> Dec(18, 3), synergy |-> Int2Num(0)],
     NCJG  |-> [base |-> Int2Num(72), timeK |-> Dec(15, 2), phOpt |-> Dec(60, 1),
                phSens |-> Dec(38, 1), concDecay |-> Dec(10, 3), synergy |-> Int2Num(3)],
     MWM   |-> [base |-> Int2Num(65), timeK |-> Dec(12, 2), phOpt |-> Dec(55, 1),
                phSens |-> Dec(45, 1), concDecay |-> Dec(15, 3), synergy |-> Int2Num(0)]]

POLLUTANT_MOD ==
    ("Cd(II)" :> [phDir |-> 1, optMul |-> Dec(105, 2), concBase |-> Int2Num(5)])
    @@ ("Pb(II)" :> [phDir |-> 1, optMul |-> Dec(108, 2), concBase |-> Int2Num(5)])
    @@ ("As(III)" :> [phDir |-> -1, optMul |-> Dec(92, 2), concBase |-> Int2Num(5)])
    @@ ("Nap" :> [phDir |-> 0, optMul |-> Dec(88, 2), concBase |-> Int2Num(50)])

\* the two const bindings: the objects they name are not frozen
VARIABLE registry

Registry == [MODEL_PARAMS |-> MODEL_PARAMS, POLLUTANT_MOD |-> POLLUTANT_MOD]

\* Both registries are object literals: a key they do not define is looked
\* up in Object.prototype, whose members (functions) are truthy and have
\* none of the coefficient properties.
ObjectPrototypeKeys == {"constructor", "toString", "valueOf", "hasOwnProperty"}

Undefined == [t |-> "undefined"]
Inherited == [t |-> "inherited"]
Own(v) == [t |-> "own", v |-> v]

\* MODEL_PARAMS[adsorbent]
LookupAdsorbent(adsorbent) ==
    IF adsorbent \in DOMAIN registry.MODEL_PARAMS
    THEN Own(registry.MODEL_PARAMS[adsorbent])
    ELSE IF adsorbent \in ObjectPrototypeKeys THEN Inherited
    ELSE Undefined

\* POLLUTANT_MOD[pollutant]
LookupPollutant(pollutant) ==
    IF pollutant \in DOMAIN registry.POLLUTANT_MOD
    THEN Own(registry.POLLUTANT_MOD[pollutant])
    ELSE IF pollutant \in ObjectPrototypeKeys THEN Inherited
    ELSE Undefined

\* !x
Falsy(x) == x.t = "undefined"

\* x.f used as a number: a property the object lacks is undefined, and
\* undefined in arithmetic is NaN
NumProp(x, f) == IF x.t = "own" THEN x.v[f] ELSE NaN

\* p.phDir === d
PhDirIs(p, d) == p.t = "own" /\ p.v.phDir = d

\* ------------------------------------------------------------------------
\* predictRemoval
\* ------------------------------------------------------------------------

Kinetic(m, time) == Sub(One, MathExp(Mul(Neg(NumProp(m, "timeK")), time)))

\* PhEffect with the logistic curve of the cations falling in pH
PhEffectCationsFalling(p, pH) ==
    IF PhDirIs(p, 1)
    THEN Div(One, Add(One, MathExp(Mul(Dec(15, 1), Sub(pH, Dec(45, 1))))))
    ELSE IF PhDirIs(p, -1)
    THEN Div(One, Add(One, MathExp(Mul(Dec(12, 1), Sub(pH, Dec(65, 1))))))
    ELSE Add(Dec(85, 2),
             Mul(Dec(15, 2),
                 MathExp(Mul(Dec(-3, 1),
                             Mul(Sub(pH, Int2Num(6)), Sub(pH, Int2Num(6)))))))

\* PhEffect with the logistic curve of the oxyanion rising in pH
PhEffectOxyanionRising(p, pH) ==
    IF PhDirIs(p, 1)
    THEN Div(One, Add(One, MathExp(Mul(Dec(-15, 1), Sub(pH, Dec(45, 1))))))
    ELSE IF PhDirIs(p, -1)
    THEN Div(One, Add(One, MathExp(Mul(Dec(-12, 1), Sub(pH, Dec(65, 1))))))
    ELSE Add(Dec(85, 2),
             Mul(Dec(15, 2),
                 MathExp(Mul(Dec(-3, 1),
                             Mul(Sub(pH, Int2Num(6)), Sub(pH, Int2Num(6)))))))

PhEffect(p, pH) ==
    IF PhDirIs(p, 1)
    THEN Div(One, Add(One, MathExp(Mul(Dec(-15, 1), Sub(pH, Dec(45, 1))))))
    ELSE IF PhDirIs(p, -1)
    THEN Div(One, Add(One, MathExp(Mul(Dec(12, 1), Sub(pH, Dec(65, 1))))))
    ELSE Add(Dec(85, 2),
             Mul(Dec(15, 2),
                 MathExp(Mul(Dec(-3, 1),
                             Mul(Sub(pH, Int2Num(6)), Sub(pH, Int2Num(6)))))))

ConcEffect(m, p, concentration) ==
    MathExp(Mul(Neg(NumProp(m, "concDecay")),
                Sub(concentration, NumProp(p, "concBase"))))

CompPenalty(competition) == IF competition THEN Dec(92, 2) ELSE One

\* m.base * kinetic * phEffect * concEffect * p.optMul * compPenalty
BaseRemoval(m, p, kinetic, phEffect, concEffect, compPenalty) ==
    Mul(Mul(Mul(Mul(Mul(NumProp(m, "base"), kinetic), phEffect), concEffect),
            NumProp(p, "optMul")),
        compPenalty)

\* Clamp without the synergy bonus
ClampWithoutSynergy(removal, synergy) ==
    MathMin(Int2Num(100), MathMax(Zero, removal))

\* Math.min(100, Math.max(0, removal + m.synergy))
Clamp(removal, synergy) ==
    MathMin(Int2Num(100), MathMax(Zero, Add(removal, synergy)))

\* 2.0 + 3.0 * (1 - kinetic) + 1.5 * Math.abs(pH - m.phOpt) / 3
Uncertainty(m, kinetic, pH) ==
    Add(Add(Dec(20, 1), Mul(Dec(30, 1), Sub(One, kinetic))),
        Div(Mul(Dec(15, 1), MathAbs(Sub(pH, NumProp(m, "phOpt")))), Int2Num(3)))

\* Math.round(x * 100) / 100
Round2(x) == Div(MathRound(Mul(x, Int2Num(100))), Int2Num(100))

\* predictRemoval with an uncertainty that grows with the concentration
predictRemovalStdOfConcentration(adsorbent, pollutant, pH, concentration, time, competition) ==
    LET m == LookupAdsorbent(adsorbent)
        p == LookupPollutant(pollutant)
    IN  IF Falsy(m) \/ Falsy(p) THEN [mean |-> Zero, std |-> Int2Num(5)]
        ELSE The({ [mean |-> Round2(Clamp(BaseRemoval(m, p, kinetic, PhEffect(p, pH),
                            ConcEffect(m, p, concentration), CompPenalty(competition)),
                            NumProp(m, "synergy"))),
                    std |-> Round2(Add(Uncertainty(m, kinetic, pH),
                                       Mul(Dec(1, 2), MathAbs(concentration))))]
                   : kinetic \in {Kinetic(m, time)} })

\* predictRemoval rejecting a negative contact time
predictRemovalValidating(adsorbent, pollutant, pH, concentration, time, competition) ==
    LET m == LookupAdsorbent(adsorbent)
        p == LookupPollutant(pollutant)
    IN  IF Falsy(m) \/ Falsy(p) THEN [mean |-> Zero, std |-> Int2Num(5)]
        ELSE IF Lt(time, Zero)
        THEN [mean |-> NaN, std |-> NaN, thrown |-> "RangeError"]
        ELSE The({ [mean |-> Round2(Clamp(BaseRemoval(m, p, kinetic, PhEffect(p, pH),
                            ConcEffect(m, p, concentration), CompPenalty(competition)),
                            NumProp(m, "synergy"))),
                    std |-> Round2(Uncertainty(m, kinetic, pH))]
                   : kinetic \in {Kinetic(m, time)} })

predictRemoval(adsorbent, pollutant, pH, concentration, time, competition) ==
    LET m == LookupAdsorbent(adsorbent)
        p == LookupPollutant(pollutant)
    IN  IF Falsy(m) \/ Falsy(p) THEN [mean |-> Zero, std |-> Int2Num(5)]
        ELSE The({ [mean |-> Round2(Clamp(
                                 BaseRemoval(m, p, kinetic, PhEffect(p, pH),
                                             ConcEffect(m, p, concentration),
                                             CompPenalty(competition)),
                                 NumProp(m, "synergy"))),
                    std |-> Round2(Uncertainty(m, kinetic, pH))]
                   : kinetic \in {Kinetic(m, time)} })

\* ------------------------------------------------------------------------
\* bayesianOptimize
\* ------------------------------------------------------------------------

\* null (the initial bestParams)
Null == [null |-> TRUE]

\* Sample counting from the upper end of the range
SampleFromUpperEnd(range, u) == Add(range[2], Mul(u, Sub(range[2], range[1])))

\* range[0] + Math.random() * (range[1] - range[0])
Sample(range, u) == Add(range[1], Mul(u, Sub(range[2], range[1])))

\* pred.mean - targetRemoval + 0.5 * pred.std
ExpectedImprovement(pred, targetRemoval) ==
    Add(Sub(pred.mean, targetRemoval), Mul(Dec(5, 1), pred.std))

\* Score with the two weights of std exchanged
ScoreWeightsExchanged(pred, targetRemoval) ==
    IF Ge(pred.mean, targetRemoval)
    THEN Sub(pred.mean, Mul(Dec(5, 1), pred.std))
    ELSE Add(Sub(pred.mean, targetRemoval), Mul(Dec(1, 1), pred.std))

\* pred.mean >= targetRemoval ? pred.mean - 0.1 * pred.std : ei
Score(pred, targetRemoval) ==
    IF Ge(pred.mean, targetRemoval)
    THEN Sub(pred.mean, Mul(Dec(1, 1), pred.std))
    ELSE ExpectedImprovement(pred, targetRemoval)

\* HistoryEntry with time and concentration exchanged
HistoryEntryExchanged(iteration, pH, time, conc, pred, score) ==
    [iteration |-> iteration, pH |-> ToFixed(pH, 2), time |-> ToFixed(conc, 1),
     concentration |-> ToFixed(time, 1), predicted |-> pred.mean,
     std |-> pred.std, score |-> ToFixed(score, 2)]

\* HistoryEntry with the loop counter i in place of i + 1
HistoryEntryFromZero(iteration, pH, time, conc, pred, score) ==
    [iteration |-> iteration - 1, pH |-> ToFixed(pH, 2), time |-> ToFixed(time, 1),
     concentration |-> ToFixed(conc, 1), predicted |-> pred.mean,
     std |-> pred.std, score |-> ToFixed(score, 2)]

\* the entry pushed on history
HistoryEntry(iteration, pH, time, conc, pred, score) ==
    [iteration |-> iteration, pH |-> ToFixed(pH, 2), time |-> ToFixed(time, 1),
     concentration |-> ToFixed(conc, 1), predicted |-> pred.mean,
     std |-> pred.std, score |-> ToFixed(score, 2)]

\* the object assigned to bestParams
BestEntry(pH, time, conc, pred) ==
    [pH |-> ToFixed(pH, 2), time |-> ToFixed(time, 1),
     concentration |-> ToFixed(conc, 1), predicted |-> pred.mean,
     std |-> pred.std]

\* Improves keeping the lowest score
ImprovesIfLower(score, bestScore) == bestScore = NegInf \/ Lt(score, bestScore)

\* Improves without the comparison with the running best
ImprovesAlways(score, bestScore) == Gt(score, NegInf)

\* Improves with >= in place of >
ImprovesOrTies(score, bestScore) == Ge(score, bestScore)

\* Continues stopping one iteration early
ContinuesOneShort(n, nIter) == n + 1 < nIter

\* the loop condition i < nIter
Continues(n, nIter) == n < nIter

\* score > bestScore
Improves(score, bestScore) == Gt(score, bestScore)

\* the body of iteration n (i = n - 1) with the draws u: lines 69-78
Trial(a, n, u) ==
    The({ The({ [u |-> u, pH |-> pH, time |-> time, conc |-> conc, pred |-> pred,
                 score |-> score,
                 entry |-> HistoryEntry(n, pH, time, conc, pred, score)]
                : score \in {Score(pred, a.targetRemoval)} })
          : pred \in {predictRemoval(a.adsorbent, a.pollutant,
                                     Sample(a.phRange, u[1]),
                                     Sample(a.concRange, u[3]),
                                     Sample(a.timeRange, u[2]), FALSE)},
            pH \in {Sample(a.phRange, u[1])},
            time \in {Sample(a.timeRange, u[2])},
            conc \in {Sample(a.concRange, u[3])} })

\* lines 80-83 applied to the trials t[k], t[k + 1], ... in the order of
\* their index, from the running best score0 and params0
RECURSIVE Reduction(_, _, _, _)
Reduction(t, k, score0, params0) ==
    IF k > Len(t) THEN params0
    ELSE IF Improves(t[k].score, score0)
    THEN Reduction(t, k + 1, t[k].score,
                   BestEntry(t[k].pH, t[k].time, t[k].conc, t[k].pred))
    ELSE Reduction(t, k + 1, score0, params0)

\* ------------------------------------------------------------------------
\* computeSHAP
\* ------------------------------------------------------------------------

\* Baseline at the reference material and contaminant
BaselineOfReference(adsorbent, pollutant) ==
    predictRemoval("NC", "Cd(II)", Int2Num(6), Int2Num(10), Int2Num(15), FALSE).mean

\* const base = predictRemoval(adsorbent, pollutant, 6, 10, 15).mean
Baseline(adsorbent, pollutant) ==
    predictRemoval(adsorbent, pollutant, Int2Num(6), Int2Num(10), Int2Num(15),
                   FALSE).mean

\* Features with the Competition contribution taken from predictRemoval
FeaturesCompetitionPredicted(adsorbent, pollutant, pH, concentration, time) ==
    LET six == Int2Num(6)
        ten == Int2Num(10)
        fifteen == Int2Num(15)
    IN  The({
        << [name |-> "Contact Time",
            value |-> Sub(predictRemoval(adsorbent, pollutant, six, ten, time,
                                         FALSE).mean, base)],
           [name |-> "Initial pH",
            value |-> Sub(predictRemoval(adsorbent, pollutant, pH, ten, fifteen,
                                         FALSE).mean, base)],
           [name |-> "Concentration",
            value |-> Sub(predictRemoval(adsorbent, pollutant, six, concentration,
                                         fifteen, FALSE).mean, base)],
           [name |-> "Adsorbent Type",
            value |-> Sub(here, predictRemoval("NC", pollutant, six, ten, fifteen,
                                               FALSE).mean)],
           [name |-> "Pollutant Type",
            value |-> Sub(here, predictRemoval(adsorbent, "Cd(II)", six, ten,
                                               fifteen, FALSE).mean)],
           [name |-> "Competition",
            value |-> Sub(predictRemoval(adsorbent, pollutant, six, ten, fifteen,
                                         TRUE).mean, here)] >>
        : base \in {Baseline(adsorbent, pollutant)},
          here \in {predictRemoval(adsorbent, pollutant, six, ten, fifteen,
                                   FALSE).mean} })

\* the features array before rounding and sorting
\* (lines 96 and 97 compute predictRemoval(adsorbent, pollutant, 6, 10, 15).mean
\* again: here)
Features(adsorbent, pollutant, pH, concentration, time) ==
    LET six == Int2Num(6)
        ten == Int2Num(10)
        fifteen == Int2Num(15)
    IN  The({
        << [name |-> "Contact Time",
            value |-> Sub(predictRemoval(adsorbent, pollutant, six, ten, time,
                                         FALSE).mean, base)],
           [name |-> "Initial pH",
            value |-> Sub(predictRemoval(adsorbent, pollutant, pH, ten, fifteen,
                                         FALSE).mean, base)],
           [name |-> "Concentration",
            value |-> Sub(predictRemoval(adsorbent, pollutant, six, concentration,
                                         fifteen, FALSE).mean, base)],
           [name |-> "Adsorbent Type",
            value |-> Sub(here, predictRemoval("NC", pollutant, six, ten, fifteen,
                                               FALSE).mean)],
           [name |-> "Pollutant Type",
            value |-> Sub(here, predictRemoval(adsorbent, "Cd(II)", six, ten,
                                               fifteen, FALSE).mean)],
           [name |-> "Competition", value |-> Dec(-32, 1)] >>
        : base \in {Baseline(adsorbent, pollutant)},
          here \in {predictRemoval(adsorbent, pollutant, six, ten, fifteen,
                                   FALSE).mean} })

\* f => ({ ...f, value: +f.value.toFixed(2), absValue: +Math.abs(f.value).toFixed(2) })
RoundFeature(f) ==
    [name |-> f.name, value |-> ToFixed(f.value, 2),
     absValue |-> ToFixed(MathAbs(f.value), 2)]

\* the comparator (a, b) => b.absValue - a.absValue says a must come after b
\* when its result is positive; a NaN result counts as 0
SortsAfter(a, b) == Gt(Sub(b.absValue, a.absValue), Zero)

\* a stable sort: item x inserted in the sorted sequence s behind every
\* item it does not precede
RECURSIVE InsertSorted(_, _)
InsertSorted(x0, s0) ==
    The({ IF s = <<>> THEN <<x>>
          ELSE IF SortsAfter(s[Len(s)], x)
               THEN Append(InsertSorted(x, SubSeq(s, 1, Len(s) - 1)), s[Len(s)])
          ELSE Append(s, x) : x \in {x0}, s \in {s0} })

RECURSIVE StableSort(_)
StableSort(s0) ==
    The({ IF s = <<>> THEN <<>>
          ELSE InsertSorted(s[Len(s)], StableSort(SubSeq(s, 1, Len(s) - 1)))
          : s \in {s0} })

\* the permutations of a sequence
Orderings(s) ==
    { [i \in 1..Len(s) |-> s[f[i]]] :
        f \in { g \in [1..Len(s) -> 1..Len(s)] :
                    \A i, j \in 1..Len(s) : i # j => g[i] # g[j] } }

\* Array.prototype.sort is stable for a consistent comparator. A NaN result
\* of the comparator counts as 0: a NaN key ties with every key, so with a
\* NaN key and two keys that differ the comparator is inconsistent and the
\* order is implementation-defined
SortResults(s0) ==
    UNION { IF /\ \E i \in 1..Len(s) : IsNaN(s[i].absValue)
               /\ \E i, j \in 1..Len(s) :
                      /\ ~IsNaN(s[i].absValue)
                      /\ ~IsNaN(s[j].absValue)
                      /\ ~NumEq(s[i].absValue, s[j].absValue)
            THEN Orderings(s)
            ELSE {StableSort(s)} : s \in {s0} }

\* computeSHAP without the items whose value rounds to 0
computeSHAPNonZero(adsorbent, pollutant, pH, concentration, time) ==
    UNION { SortResults(SelectSeq([i \in 1..Len(features) |-> RoundFeature(features[i])],
                                  LAMBDA f : ~NumEq(f.value, Zero)))
            : features \in {Features(adsorbent, pollutant, pH, concentration, time)} }

\* the arrays computeSHAP can return
computeSHAP(adsorbent, pollutant, pH, concentration, time) ==
    UNION { SortResults([i \in 1..Len(features) |-> RoundFeature(features[i])])
            : features \in {Features(adsorbent, pollutant, pH, concentration, time)} }

\* ------------------------------------------------------------------------
\* The caller: inputs
\* ------------------------------------------------------------------------

\* the number of grid steps of contact time, pH and concentration, and the
\* largest iteration count
TimeSteps == 2
PhSteps == 2
ConcSteps == 1
MaxIter == 3

\* identifiers: the registries' keys, an identifier nothing defines, and a
\* key of Object.prototype
UnknownId == "XYZ"
InheritedId == "constructor"
Adsorbents == DOMAIN MODEL_PARAMS \cup {UnknownId, InheritedId}
Pollutants == DOMAIN POLLUTANT_MOD \cup {UnknownId, InheritedId}

\* contact times -1, 0, 15, 30, ...; pH 2, 5, 8, ...; concentrations
\* -100000, 0, 20, ...: the practical domain and values outside it
TimeGrid == <<Int2Num(-1)>> \o [k \in 1..(TimeSteps + 1) |-> Int2Num(15 * (k - 1))]
PhGrid == [k \in 1..(PhSteps + 1) |-> Int2Num(3 * k - 1)]
ConcGrid == <<Int2Num(-100000)>> \o [k \in 1..(ConcSteps + 1) |-> Int2Num(20 * (k - 1))]

Range(s) == {s[k] : k \in 1..Len(s)}

PredictInputs ==
    [adsorbent : Adsorbents, pollutant : Pollutants, pH : Range(PhGrid),
     concentration : Range(ConcGrid), time : Range(TimeGrid),
     competition : BOOLEAN]

\* the state PredictionPanel starts with
DefaultInput ==
    [adsorbent |-> "MNCJG", pollutant |-> "Cd(II)", pH |-> Int2Num(6),
     concentration |-> Int2Num(5), time |-> Int2Num(30), competition |-> FALSE]

\* the values Math.random() returns in one iteration, for pH, time and
\* concentration
Draws ==
    { <<Dec(3, 1), Dec(8, 1), Zero>>,
      <<Dec(9, 1), Dec(1, 1), Zero>>,
      <<Dec(123, 3), Dec(4567, 4), Dec(9, 1)>> }

OptimizeInputs ==
    [pollutant : {"Cd(II)", "As(III)"},
     adsorbent : {"MNCJG", "NC", UnknownId, InheritedId},
     targetRemoval : {Int2Num(50), Int2Num(90)},
     phRange : {<<Int2Num(4), Int2Num(8)>>},
     timeRange : {<<Int2Num(5), Int2Num(30)>>},
     concRange : {<<Int2Num(1), Int2Num(20)>>},
     nIter : 0..MaxIter]
    \cup
    \* a target and ranges outside the practical domain
    {[pollutant |-> "Cd(II)", adsorbent |-> "MNCJG", targetRemoval |-> Int2Num(-10),
      phRange |-> <<Int2Num(-3), Int2Num(20)>>,
      timeRange |-> <<Int2Num(-10), Int2Num(5)>>,
      concRange |-> <<Int2Num(-100000), Zero>>, nIter |-> 2],
     \* ranges narrower than the decimals history keeps
     [pollutant |-> "Cd(II)", adsorbent |-> "MNCJG", targetRemoval |-> Int2Num(50),
      phRange |-> <<Dec(4001, 3), Dec(4004, 3)>>,
      timeRange |-> <<Dec(502, 2), Dec(504, 2)>>,
      concRange |-> <<Dec(101, 2), Dec(104, 2)>>, nIter |-> 2],
     \* a range without an upper end
     [pollutant |-> "Cd(II)", adsorbent |-> "MNCJG", targetRemoval |-> Int2Num(50),
      phRange |-> <<Int2Num(4), Int2Num(8)>>,
      timeRange |-> <<Int2Num(5), Int2Num(30)>>,
      concRange |-> <<Zero, PosInf>>, nIter |-> 2]}

\* the runs whose trials are evaluated concurrently
ParallelInputs ==
    [pollutant : {"Cd(II)"},
     adsorbent : {"MNCJG", InheritedId},
     targetRemoval : {Int2Num(50), Int2Num(90)},
     phRange : {<<Int2Num(4), Int2Num(8)>>},
     timeRange : {<<Int2Num(5), Int2Num(30)>>},
     concRange : {<<Int2Num(1), Int2Num(20)>>},
     nIter : 0..MaxIter]

\* the run the caller repeats
RerunInput ==
    [pollutant |-> "Cd(II)", adsorbent |-> "MNCJG", targetRemoval |-> Int2Num(50),
     phRange |-> <<Int2Num(4), Int2Num(8)>>,
     timeRange |-> <<Int2Num(5), Int2Num(30)>>,
     concRange |-> <<Int2Num(1), Int2Num(20)>>, nIter |-> 2]

ExplainInputs ==
    [adsorbent : {"MNCJG", "NC", UnknownId}, pollutant : {"Cd(II)", "As(III)", "Nap"},
     pH : {Int2Num(4), Int2Num(6), Int2Num(8)},
     concentration : {Int2Num(10), Int2Num(40)},
     time : {Int2Num(0), Int2Num(15), Int2Num(30)}]
    \cup
    [adsorbent : {"MNCJG", "NC", InheritedId}, pollutant : {"Cd(II)", InheritedId},
     pH : {Int2Num(6)}, concentration : {Int2Num(10)}, time : {Int2Num(15)}]
    \cup
    \* values outside the practical domain
    {[adsorbent |-> "MNCJG", pollutant |-> "Cd(II)", pH |-> Int2Num(-3),
      concentration |-> Int2Num(-100000), time |-> Int2Num(-1)]}

\* ------------------------------------------------------------------------
\* The caller: state and steps
\* ------------------------------------------------------------------------

VARIABLES
    pc,          \* what the caller is doing: "idle", "predicted",
                 \* "optimizing", "optimized", "explained"
    args,        \* the arguments of the call in progress
    calls,       \* the predictRemoval calls of the caller: arguments, result
    sweep,       \* the argument the caller varies from call to call
    i,           \* bayesianOptimize: the loop counter
    bestParams,  \* bayesianOptimize: bestParams
    bestScore,   \* bayesianOptimize: bestScore
    history,     \* bayesianOptimize: history
    trials,      \* the draws and the locals pH, time, conc, pred, score of
                 \* each iteration
    ret,         \* the value the last call returned
    memo,        \* PredictionPanel: the prediction useMemo holds
    result,      \* OptimizationPanel: the run setResult stored
    slots,       \* the trials evaluated concurrently: the trial of each
                 \* index evaluated so far
    reduced      \* the best and the history reduced from the slots

vars == <<registry, pc, args, calls, sweep, i, bestParams, bestScore, history,
          trials, ret, memo, result, slots, reduced>>

\* what the three functions do not assign
frame == <<registry, memo, result, slots, reduced>>

optVars == <<i, bestParams, bestScore, history, trials>>

None == [none |-> TRUE]

Init ==
    /\ pc = "idle"
    /\ args = None
    /\ calls = <<>>
    /\ sweep = "none"
    /\ i = 0
    /\ bestParams = Null
    /\ bestScore = NegInf
    /\ history = <<>>
    /\ trials = <<>>
    /\ ret = None
    /\ registry = Registry
    /\ memo = None
    /\ result = None
    /\ slots = None
    /\ reduced = None

Call(a) ==
    [args |-> a,
     res |-> predictRemoval(a.adsorbent, a.pollutant, a.pH, a.concentration,
                            a.time, a.competition)]

\* Predict keeping its result in the registry
PredictWriting ==
    /\ pc = "idle"
    /\ \E a \in PredictInputs :
          \E c \in {Call(a)} :
              /\ args' = a
              /\ calls' = <<c>>
              /\ ret' = c.res
              /\ registry' = [registry EXCEPT !.MODEL_PARAMS.NC.synergy = c.res.mean]
    /\ pc' = "predicted"
    /\ sweep' = "none"
    /\ UNCHANGED <<optVars, memo, result, slots, reduced>>

\* the caller calls predictRemoval
Predict ==
    /\ pc = "idle"
    /\ \E a \in PredictInputs :
          \E c \in {Call(a)} :
              /\ args' = a
              /\ calls' = <<c>>
              /\ ret' = c.res
    /\ pc' = "predicted"
    /\ sweep' = "none"
    /\ UNCHANGED <<optVars, frame>>

\* PredictionPanel is rendered in its initial state: line 234
Render ==
    /\ pc = "idle"
    /\ \E c \in {Call(DefaultInput)} :
          /\ args' = c.args
          /\ calls' = <<c>>
          /\ ret' = c.res
    /\ pc' = "predicted"
    /\ sweep' = "none"
    /\ UNCHANGED <<optVars, frame>>

\* the caller calls it again with the next longer contact time (the kinetic
\* curve of PredictionPanel)
PredictLater ==
    /\ pc = "predicted"
    /\ sweep = "time" \/ (sweep = "none" /\ args.time = TimeGrid[1])
    /\ \E k \in 1..(Len(TimeGrid) - 1) :
          /\ args.time = TimeGrid[k]
          /\ \E c \in {Call([args EXCEPT !.time = TimeGrid[k + 1]])} :
                /\ args' = c.args
                /\ calls' = Append(calls, c)
                /\ ret' = c.res
    /\ sweep' = "time"
    /\ UNCHANGED <<pc, optVars, frame>>

\* the caller calls it again with the next higher pH (the pH response
\* curve of PredictionPanel)
PredictHigherPH ==
    /\ pc = "predicted"
    /\ sweep = "pH" \/ (sweep = "none" /\ args.pH = PhGrid[1])
    /\ \E k \in 1..(Len(PhGrid) - 1) :
          /\ args.pH = PhGrid[k]
          /\ \E c \in {Call([args EXCEPT !.pH = PhGrid[k + 1]])} :
                /\ args' = c.args
                /\ calls' = Append(calls, c)
                /\ ret' = c.res
    /\ sweep' = "pH"
    /\ UNCHANGED <<pc, optVars, frame>>

\* bayesianOptimize is entered: lines 64-66
OptimizeEnter ==
    /\ pc = "idle"
    /\ \E a \in OptimizeInputs : args' = a
    /\ pc' = "optimizing"
    /\ i' = 0
    /\ bestParams' = Null
    /\ bestScore' = NegInf
    /\ history' = <<>>
    /\ trials' = <<>>
    /\ UNCHANGED <<calls, sweep, ret, frame>>

\* one iteration of the loop: lines 68-84
OptimizeIterate ==
    /\ pc = "optimizing"
    /\ Continues(i, args.nIter)
    /\ \E u \in Draws :
          \E pH \in {Sample(args.phRange, u[1])},
             time \in {Sample(args.timeRange, u[2])},
             conc \in {Sample(args.concRange, u[3])} :
          \E pred \in {predictRemoval(args.adsorbent, args.pollutant, pH, conc,
                                      time, FALSE)} :
          \E score \in {Score(pred, args.targetRemoval)} :
              /\ history' = Append(history,
                                   HistoryEntry(i + 1, pH, time, conc, pred, score))
              /\ trials' = Append(trials, [u |-> u, pH |-> pH, time |-> time,
                                           conc |-> conc, pred |-> pred,
                                           score |-> score])
              /\ IF Improves(score, bestScore)
                 THEN /\ bestScore' = score
                      /\ bestParams' = BestEntry(pH, time, conc, pred)
                 ELSE UNCHANGED <<bestScore, bestParams>>
    /\ i' = i + 1
    /\ UNCHANGED <<pc, args, calls, sweep, ret, frame>>

\* OptimizeReturn writing the number of trials into the registry
OptimizeReturnWriting ==
    /\ pc = "optimizing"
    /\ ~Continues(i, args.nIter)
    /\ ret' = [best |-> bestParams, history |-> history]
    /\ pc' = "optimized"
    /\ registry' = [registry EXCEPT !.MODEL_PARAMS.MNCJG.synergy = Int2Num(i)]
    /\ UNCHANGED <<args, calls, sweep, optVars, memo, result, slots, reduced>>

\* the loop ends and bayesianOptimize returns: line 86
OptimizeReturn ==
    /\ pc = "optimizing"
    /\ ~Continues(i, args.nIter)
    /\ ret' = [best |-> bestParams, history |-> history]
    /\ pc' = "optimized"
    /\ UNCHANGED <<args, calls, sweep, optVars, frame>>

\* Explain leaving the reference material's base in the material's entry
ExplainWriting ==
    /\ pc = "idle"
    /\ \E a \in ExplainInputs :
          /\ args' = a
          /\ ret' \in computeSHAP(a.adsorbent, a.pollutant, a.pH, a.concentration,
                                  a.time)
          /\ registry' = IF a.adsorbent \in DOMAIN registry.MODEL_PARAMS
                         THEN [registry EXCEPT !.MODEL_PARAMS[a.adsorbent].base =
                                                   registry.MODEL_PARAMS.NC.base]
                         ELSE registry
    /\ pc' = "explained"
    /\ UNCHANGED <<calls, sweep, optVars, memo, result, slots, reduced>>

\* the caller calls computeSHAP
Explain ==
    /\ pc = "idle"
    /\ \E a \in ExplainInputs :
          /\ args' = a
          /\ ret' \in computeSHAP(a.adsorbent, a.pollutant, a.pH, a.concentration,
                                  a.time)
    /\ pc' = "explained"
    /\ UNCHANGED <<calls, sweep, optVars, frame>>

\* the caller's locals when no call is in progress
Idle ==
    /\ pc' = "idle"
    /\ args' = None
    /\ calls' = <<>>
    /\ sweep' = "none"
    /\ ret' = None
    /\ i' = 0
    /\ bestParams' = Null
    /\ bestScore' = NegInf
    /\ history' = <<>>
    /\ trials' = <<>>

\* the caller is done with the result (memo.between: bayesianOptimize or
\* computeSHAP has returned since the prediction was memoized)
Finish ==
    /\ pc \in {"predicted", "optimized", "explained"}
    /\ Idle
    /\ memo' = IF memo # None /\ pc \in {"optimized", "explained"}
               THEN [memo EXCEPT !.between = TRUE]
               ELSE memo
    /\ UNCHANGED <<registry, result, slots, reduced>>

\* useMemo keeps the prediction of the initial state: line 234
KeepPrediction ==
    /\ pc = "predicted"
    /\ sweep = "none"
    /\ args = DefaultInput
    /\ memo = None
    /\ memo' = [call |-> calls[1], between |-> FALSE]
    /\ Idle
    /\ UNCHANGED <<registry, result, slots, reduced>>

\* setResult(res) stores the run, here with its arguments and draws: line 411
KeepRun ==
    /\ pc = "optimized"
    /\ args = RerunInput
    /\ result = None
    /\ result' = [args |-> args, draws |-> [k \in 1..Len(trials) |-> trials[k].u],
                  res |-> ret]
    /\ Idle
    /\ UNCHANGED <<registry, memo, slots, reduced>>

\* a concurrent evaluation of the run starts: no index is evaluated yet
ParallelEnter ==
    /\ pc = "idle"
    /\ reduced = None
    /\ \E a \in ParallelInputs :
          /\ args' = a
          /\ slots' = [trial |-> [k \in 1..a.nIter |-> None], inOrder |-> TRUE]
    /\ pc' = "evaluating"
    /\ UNCHANGED <<calls, sweep, ret, optVars, registry, memo, result, reduced>>

\* ParallelEvaluate numbering each trial by the order of its completion
ParallelEvaluateByCompletion ==
    /\ pc = "evaluating"
    /\ \E k \in DOMAIN slots.trial :
          /\ slots.trial[k] = None
          /\ \E u \in Draws :
                slots' = [trial |-> [slots.trial EXCEPT ![k] =
                              Trial(args, 1 + Cardinality({j \in DOMAIN slots.trial :
                                                              slots.trial[j] # None}),
                                    u)],
                          inOrder |-> slots.inOrder /\
                                      \A j \in 1..(k - 1) : slots.trial[j] # None]
    /\ UNCHANGED <<pc, args, calls, sweep, ret, optVars, registry, memo, result,
                   reduced>>

\* some index not evaluated yet is evaluated, with its own draws: lines
\* 69-78 for any one i
ParallelEvaluate ==
    /\ pc = "evaluating"
    /\ \E k \in DOMAIN slots.trial :
          /\ slots.trial[k] = None
          /\ \E u \in Draws :
                slots' = [trial |-> [slots.trial EXCEPT ![k] = Trial(args, k, u)],
                          inOrder |-> slots.inOrder /\
                                      \A j \in 1..(k - 1) : slots.trial[j] # None]
    /\ UNCHANGED <<pc, args, calls, sweep, ret, optVars, registry, memo, result,
                   reduced>>

\* every index is evaluated: the best is chosen by lines 80-83 in the order
\* of the indices, the history is the entries in that order
ParallelReduce ==
    /\ pc = "evaluating"
    /\ \A k \in DOMAIN slots.trial : slots.trial[k] # None
    /\ reduced' = [args |-> args,
                   draws |-> [k \in DOMAIN slots.trial |-> slots.trial[k].u],
                   inOrder |-> slots.inOrder,
                   res |-> [best |-> Reduction(slots.trial, 1, NegInf, Null),
                            history |-> [k \in DOMAIN slots.trial |->
                                            slots.trial[k].entry]]]
    /\ slots' = None
    /\ Idle
    /\ UNCHANGED <<registry, memo, result>>

\* the sequential loop is entered with the arguments of the concurrent run
ReplayEnter ==
    /\ reduced # None
    /\ OptimizeEnter
    /\ args' = reduced.args

\* one iteration of the sequential loop, Math.random returning the draws
\* the concurrent run had for this index
ReplayIterate ==
    /\ reduced # None
    /\ OptimizeIterate
    /\ trials'[i + 1].u = reduced.draws[i + 1]

Next ==
    \/ Predict
    \/ Render
    \/ KeepPrediction
    \/ KeepRun
    \/ PredictLater
    \/ PredictHigherPH
    \/ OptimizeEnter
    \/ OptimizeIterate
    \/ OptimizeReturn
    \/ Explain
    \/ ParallelEnter
    \/ ParallelEvaluate
    \/ ParallelReduce
    \/ ReplayEnter
    \/ ReplayIterate
    \/ Finish

Spec == Init /\ [][Next]_vars

\* the caller restricted to one of the three functions
NextPredict == Predict \/ Render \/ PredictLater \/ PredictHigherPH \/ Finish
SpecPredict == Init /\ [][NextPredict]_vars

NextOptimize == OptimizeEnter \/ OptimizeIterate \/ OptimizeReturn \/ Finish
SpecOptimize == Init /\ [][NextOptimize]_vars

NextExplain == Explain \/ Finish
SpecExplain == Init /\ [][NextExplain]_vars

\* the caller calling each of the three functions, in any order
NextCalls ==
    Predict \/ OptimizeEnter \/ OptimizeIterate \/ OptimizeReturn \/ Explain \/ Finish
SpecCalls == Init /\ [][NextCalls]_vars

\* PredictionPanel rendered again and again, with runs of bayesianOptimize
\* and calls of computeSHAP in between
NextSession ==
    \/ Render
    \/ KeepPrediction
    \/ OptimizeEnter
    \/ OptimizeIterate
    \/ OptimizeReturn
    \/ Explain
    \/ Finish
SpecSession == Init /\ [][NextSession]_vars

\* OptimizationPanel running bayesianOptimize again and again
NextRerun == NextOptimize \/ KeepRun
SpecRerun == Init /\ [][NextRerun]_vars

\* the trials of a run evaluated in any interleaving and reduced, then the
\* sequential loop on the same arguments and draws
NextParallel ==
    \/ ParallelEnter
    \/ ParallelEvaluate
    \/ ParallelReduce
    \/ ReplayEnter
    \/ ReplayIterate
    \/ OptimizeReturn
    \/ Finish
SpecParallel == Init /\ [][NextParallel]_vars

\* the loop is not suspended for ever: it has no await and no yield
SpecOptimizeFair ==
    SpecOptimize /\ WF_vars(OptimizeIterate) /\ WF_vars(OptimizeReturn)

\* ------------------------------------------------------------------------
\* Properties
\* ------------------------------------------------------------------------

Resolvable(a) ==
    a.adsorbent \in DOMAIN MODEL_PARAMS /\ a.pollutant \in DOMAIN POLLUTANT_MOD

Fallback == [mean |-> Zero, std |-> Int2Num(5)]

\* the values bestParams and a history entry have in common
SampleOf(h) ==
    [pH |-> h.pH, time |-> h.time, concentration |-> h.concentration,
     predicted |-> h.predicted, std |-> h.std]

\* C1: a call of predictRemoval whose material is not a key of MODEL_PARAMS,
\* or whose contaminant is not a key of POLLUTANT_MOD, returns exactly
\* {mean: 0, std: 5}.
C1_UnknownIdentifierFallback ==
    \A n \in 1..Len(calls) :
        ~Resolvable(calls[n].args) => calls[n].res = Fallback

\* C2: the mean predictRemoval returns lies in [0, 100], for all inputs.
C2_MeanInRange ==
    \A n \in 1..Len(calls) :
        Ge(calls[n].res.mean, Zero) /\ Le(calls[n].res.mean, Int2Num(100))

\* C3: the std predictRemoval returns is strictly greater than 0, for all
\* inputs.
C3_StdPositive ==
    \A n \in 1..Len(calls) : Gt(calls[n].res.std, Zero)

\* C4: for a resolvable pair and fixed pH, concentration and competition
\* flag, 0 <= t1 < t2 implies mean(t1) <= mean(t2).
C4_MonotoneInTime ==
    sweep = "time" =>
        \A n1, n2 \in 1..Len(calls) :
            (/\ Resolvable(calls[n1].args)
             /\ Ge(calls[n1].args.time, Zero)
             /\ Lt(calls[n1].args.time, calls[n2].args.time))
            => Le(calls[n1].res.mean, calls[n2].res.mean)

\* the calls n1, n2 of a pH sweep for a contaminant of pH direction d, at
\* pH values in [lo, hi], the second pH the higher one
PhPair(n1, n2, d) ==
    /\ sweep = "pH"
    /\ calls[n1].args.adsorbent \in DOMAIN MODEL_PARAMS
    /\ calls[n1].args.pollutant \in DOMAIN POLLUTANT_MOD
    /\ POLLUTANT_MOD[calls[n1].args.pollutant].phDir = d
    /\ Lt(calls[n1].args.pH, calls[n2].args.pH)

InPracticalPH(a) == Ge(a.pH, Int2Num(2)) /\ Le(a.pH, Int2Num(8))

NonNegativeTimeAndConcentration(a) ==
    Ge(a.time, Zero) /\ Ge(a.concentration, Zero)

\* C5 as claimed: for a contaminant with phDir = 1, any material and fixed
\* concentration, contact time and competition flag, the mean is
\* non-decreasing in pH over the practical pH domain 2..8.
C5_AsClaimed ==
    \A n1, n2 \in 1..Len(calls) :
        (/\ PhPair(n1, n2, 1)
         /\ InPracticalPH(calls[n1].args)
         /\ InPracticalPH(calls[n2].args))
        => Le(calls[n1].res.mean, calls[n2].res.mean)

\* C5 as amended: the same, for contact time >= 0 and concentration >= 0.
C5_NonDecreasingInPH ==
    \A n1, n2 \in 1..Len(calls) :
        (/\ PhPair(n1, n2, 1)
         /\ InPracticalPH(calls[n1].args)
         /\ InPracticalPH(calls[n2].args)
         /\ NonNegativeTimeAndConcentration(calls[n1].args))
        => Le(calls[n1].res.mean, calls[n2].res.mean)

\* C5, witness: a pH sweep in the practical domain, contact time and
\* concentration not negative, along which the mean of a phDir = 1
\* contaminant rises.
C5_Witness ==
    \E n1, n2 \in 1..Len(calls) :
        /\ PhPair(n1, n2, 1)
        /\ InPracticalPH(calls[n1].args)
        /\ InPracticalPH(calls[n2].args)
        /\ NonNegativeTimeAndConcentration(calls[n1].args)
        /\ Lt(calls[n1].res.mean, calls[n2].res.mean)

\* C6 as claimed: for a contaminant with phDir = -1, any material and fixed
\* concentration, contact time and competition flag, the mean is
\* non-increasing in pH.
C6_AsClaimed ==
    \A n1, n2 \in 1..Len(calls) :
        PhPair(n1, n2, -1) => Ge(calls[n1].res.mean, calls[n2].res.mean)

\* C6 as amended: the same, for contact time >= 0 and concentration >= 0.
C6_NonIncreasingInPH ==
    \A n1, n2 \in 1..Len(calls) :
        (PhPair(n1, n2, -1) /\ NonNegativeTimeAndConcentration(calls[n1].args))
        => Ge(calls[n1].res.mean, calls[n2].res.mean)

\* C6, witness: a pH sweep, contact time and concentration not negative,
\* along which the mean of the phDir = -1 contaminant falls.
C6_Witness ==
    \E n1, n2 \in 1..Len(calls) :
        /\ PhPair(n1, n2, -1)
        /\ NonNegativeTimeAndConcentration(calls[n1].args)
        /\ Gt(calls[n1].res.mean, calls[n2].res.mean)

\* C7: the history bayesianOptimize returns has exactly nIter entries, and
\* entry k carries the iteration index k.
C7_HistoryIndices ==
    pc = "optimized" =>
        /\ Len(ret.history) = args.nIter
        /\ \A k \in 1..Len(ret.history) : ret.history[k].iteration = k

\* C7, witness: bayesianOptimize has returned after MaxIter iterations.
C7_Witness ==
    pc = "optimized" /\ args.nIter = MaxIter /\ Len(ret.history) = MaxIter

\* C8 as claimed: the returned best is a sample that has a score, and that
\* score is >= the score of every entry of the returned history.
C8_AsClaimed ==
    pc = "optimized" =>
        /\ "score" \in DOMAIN ret.best
        /\ \A k \in 1..Len(ret.history) : Ge(ret.best.score, ret.history[k].score)

\* C8 as amended: whenever the returned best is not null, it has no score of
\* its own; its pH, time, concentration, predicted and std are those of
\* a history entry whose score no entry of the history exceeds.
C8_BestHasTopScore ==
    (pc = "optimized" /\ ret.best # Null) =>
        /\ "score" \notin DOMAIN ret.best
        /\ \E j \in 1..Len(ret.history) :
              /\ ret.best = SampleOf(ret.history[j])
              /\ \A k \in 1..Len(ret.history) :
                    ~Gt(ret.history[k].score, ret.history[j].score)

\* C8, witness: a best that is not the first entry, the history holding
\* entries of lower score.
C8_Witness ==
    /\ pc = "optimized"
    /\ ret.best # Null
    /\ Len(ret.history) >= 2
    /\ ret.best # SampleOf(ret.history[1])
    /\ \E j, k \in 1..Len(ret.history) :
          /\ ret.best = SampleOf(ret.history[j])
          /\ Lt(ret.history[k].score, ret.history[j].score)

\* the entries that share the highest score recorded in the history h
TopRecorded(h) ==
    {j \in 1..Len(h) : \A k \in 1..Len(h) : Ge(h[j].score, h[k].score)}

\* the iterations whose score, as computed (not rounded), no iteration
\* exceeds
TopComputed(t) ==
    {j \in 1..Len(t) :
        /\ Gt(t[j].score, NegInf)
        /\ \A k \in 1..Len(t) : ~Gt(t[k].score, t[j].score)}

Least(S) == CHOOSE j \in S : \A k \in S : j <= k

\* C9 as claimed: when several history entries share the highest score
\* recorded in history, best is the one with the lowest iteration index.
C9_AsClaimed ==
    (pc = "optimized" /\ Cardinality(TopRecorded(ret.history)) >= 2) =>
        ret.best = SampleOf(ret.history[Least(TopRecorded(ret.history))])

\* C9 as amended: when several iterations share the highest score as
\* computed (before the history rounds it to 2 decimals), best is the one
\* with the lowest iteration index.
C9_FirstOfTopComputed ==
    (pc = "optimized" /\ Cardinality(TopComputed(trials)) >= 2) =>
        ret.best = SampleOf(ret.history[Least(TopComputed(trials))])

\* C9, witness: two iterations with different samples tie for the highest
\* computed score, and best is the earlier of them.
C9_Witness ==
    /\ pc = "optimized"
    /\ \E j, k \in TopComputed(trials) :
          /\ j < k
          /\ SampleOf(ret.history[j]) # SampleOf(ret.history[k])
          /\ ret.best = SampleOf(ret.history[j])

FeatureNames ==
    <<"Contact Time", "Initial pH", "Concentration", "Adsorbent Type",
      "Pollutant Type", "Competition">>

\* C10: computeSHAP returns exactly 6 items, one for each of Contact Time,
\* Initial pH, Concentration, Adsorbent Type, Pollutant Type and
\* Competition, for every input.
C10_SixItems ==
    pc = "explained" =>
        /\ Len(ret) = 6
        /\ \A n \in 1..Len(FeatureNames) :
              Cardinality({j \in 1..Len(ret) : ret[j].name = FeatureNames[n]}) = 1

\* C10, witness: computeSHAP has returned for an identifier that is in
\* neither registry.
C10_Witness ==
    /\ pc = "explained"
    /\ args.adsorbent \notin DOMAIN MODEL_PARAMS
    /\ Len(ret) = 6

\* the place of a feature in the declaration order
Declared(name) == CHOOSE n \in 1..Len(FeatureNames) : FeatureNames[n] = name

\* C11: the items computeSHAP returns are ordered by non-increasing absValue,
\* and two items with equal absValue appear in their declaration order.
C11_SortedByAbsValue ==
    pc = "explained" =>
        \A j, k \in 1..Len(ret) :
            j < k =>
                /\ Ge(ret[j].absValue, ret[k].absValue)
                /\ NumEq(ret[j].absValue, ret[k].absValue)
                       => Declared(ret[j].name) < Declared(ret[k].name)

\* C12 as claimed: for MNCJG and Cd(II) with pH 6, concentration 5, time 30
\* and no competition, predictRemoval returns a mean within 0.05 of 95.0.
C12_AsClaimed ==
    \A n \in 1..Len(calls) :
        calls[n].args = DefaultInput =>
            Le(MathAbs(Sub(calls[n].res.mean, Int2Num(95))), Dec(5, 2))

\* C12 as amended: for these inputs predictRemoval returns the mean 91.99.
C12_DefaultMean ==
    \A n \in 1..Len(calls) :
        calls[n].args = DefaultInput => NumEq(calls[n].res.mean, Dec(9199, 2))

\* C12, witness: predictRemoval has returned for these inputs.
C12_Witness ==
    pc = "predicted" /\ args = DefaultInput /\ calls[1].args = DefaultInput

\* C13: a call of predictRemoval with the arguments of an earlier call
\* returns what the earlier call returned, whatever was called in between.
C13_SameArgumentsSameResult ==
    memo # None =>
        \A n \in 1..Len(calls) :
            calls[n].args = memo.call.args => calls[n].res = memo.call.res

\* C13, witness: predictRemoval is called again with the memoized arguments
\* after bayesianOptimize or computeSHAP has returned.
C13_Witness ==
    /\ memo # None
    /\ memo.between
    /\ pc = "predicted"
    /\ calls[1].args = memo.call.args

\* the draws of the run in progress
DrawsSoFar == [k \in 1..Len(trials) |-> trials[k].u]

\* C14: a run of bayesianOptimize with the arguments and the sequence of
\* draws of an earlier run returns the best and the history of that run.
C14_SameDrawsSameRun ==
    (/\ pc = "optimized"
     /\ result # None
     /\ args = result.args
     /\ DrawsSoFar = result.draws)
    => ret = result.res

\* C14, witness: a second run with the arguments and draws of the stored one
\* has returned.
C14_Witness ==
    /\ pc = "optimized"
    /\ result # None
    /\ args = result.args
    /\ DrawsSoFar = result.draws
    /\ Len(ret.history) = 2

\* C15: the registries hold the same 5 materials and 4 contaminants with the
\* same coefficients as at start, whatever was called.
C15_RegistriesUnchanged ==
    /\ registry = Registry
    /\ Cardinality(DOMAIN registry.MODEL_PARAMS) = 5
    /\ Cardinality(DOMAIN registry.POLLUTANT_MOD) = 4

\* C15, witness: bayesianOptimize has returned after MaxIter calls of
\* predictRemoval, and the registries are what they were.
C15_Witness ==
    /\ pc = "optimized"
    /\ Len(history) = MaxIter
    /\ registry = Registry

IsNumber(x) == DOMAIN x = {"k", "m", "e"} /\ x.k \in {"fin", "inf", "nan"}

IsPrediction(r) ==
    DOMAIN r = {"mean", "std"} /\ IsNumber(r.mean) /\ IsNumber(r.std)

\* C16: for resolvable identifiers and any numeric pH, concentration, time,
\* target and ranges, predictRemoval, bayesianOptimize and computeSHAP
\* return a result: a prediction, a best with a history of nIter entries,
\* six contributions; none rejects its input.
C16_AlwaysAResult ==
    /\ \A n \in 1..Len(calls) :
          Resolvable(calls[n].args) => IsPrediction(calls[n].res)
    /\ (pc \in {"optimizing", "optimized"} /\ Resolvable(args)) =>
          \A k \in 1..Len(trials) : IsPrediction(trials[k].pred)
    /\ (pc = "optimized" /\ Resolvable(args)) =>
          /\ DOMAIN ret = {"best", "history"}
          /\ Len(ret.history) = args.nIter
    /\ (pc = "explained" /\ Resolvable(args)) =>
          /\ Len(ret) = 6
          /\ \A j \in 1..Len(ret) : IsNumber(ret[j].value)

\* C16, witness: predictRemoval has returned a prediction for a negative
\* contact time.
C16_Witness ==
    /\ pc = "predicted"
    /\ Resolvable(args)
    /\ Lt(args.time, Zero)
    /\ IsPrediction(ret)

\* the returned item of a feature
Item(name) == ret[CHOOSE j \in 1..Len(ret) : ret[j].name = name]

\* the Contact Time, Initial pH and Concentration contributions are the
\* one-factor predictions minus the baseline b
SubtractsBaseline(b) ==
    /\ Item("Contact Time").value =
          ToFixed(Sub(predictRemoval(args.adsorbent, args.pollutant, Int2Num(6),
                                     Int2Num(10), args.time, FALSE).mean, b), 2)
    /\ Item("Initial pH").value =
          ToFixed(Sub(predictRemoval(args.adsorbent, args.pollutant, args.pH,
                                     Int2Num(10), Int2Num(15), FALSE).mean, b), 2)
    /\ Item("Concentration").value =
          ToFixed(Sub(predictRemoval(args.adsorbent, args.pollutant, Int2Num(6),
                                     args.concentration, Int2Num(15), FALSE).mean, b), 2)

\* C17 as claimed: the baseline subtracted in the Contact Time, Initial pH
\* and Concentration contributions is the mean at pH 6, concentration 10,
\* time 15 of the reference material NC and the reference contaminant
\* Cd(II), whatever the caller passes.
C17_AsClaimed ==
    pc = "explained" =>
        SubtractsBaseline(predictRemoval("NC", "Cd(II)", Int2Num(6), Int2Num(10),
                                         Int2Num(15), FALSE).mean)

\* C17 as amended: that baseline is the mean at pH 6, concentration 10,
\* time 15 of the material and the contaminant the caller passes.
C17_BaselineOfCaller ==
    pc = "explained" =>
        SubtractsBaseline(predictRemoval(args.adsorbent, args.pollutant, Int2Num(6),
                                         Int2Num(10), Int2Num(15), FALSE).mean)

\* C17, witness: computeSHAP has returned for a material other than NC, and
\* the contributions are not what the baseline of NC and Cd(II) gives.
C17_Witness ==
    /\ pc = "explained"
    /\ args.adsorbent = "MNCJG"
    /\ ~SubtractsBaseline(predictRemoval("NC", "Cd(II)", Int2Num(6), Int2Num(10),
                                         Int2Num(15), FALSE).mean)

\* mean - 0.1*std when mean >= target, (mean - target) + 0.5*std otherwise
AcquisitionScore(mean, std, target) ==
    IF Ge(mean, target)
    THEN Sub(mean, Mul(Dec(1, 1), std))
    ELSE Add(Sub(mean, target), Mul(Dec(5, 1), std))

\* C18 as claimed: the score of a trial is mean - 0.1*std when mean >=
\* targetRemoval and (mean - targetRemoval) + 0.5*std otherwise, and this
\* score is the one recorded in the trial's history entry.
C18_AsClaimed ==
    pc \in {"optimizing", "optimized"} =>
        \A k \in 1..Len(history) :
            history[k].score =
                AcquisitionScore(history[k].predicted, history[k].std,
                                 args.targetRemoval)

\* C18 as amended: the score of a trial is given by that formula; the
\* history entry records it rounded to 2 decimals, and the running best is
\* compared with the score as computed.
C18_ScoreOfTrial ==
    pc \in {"optimizing", "optimized"} =>
        /\ \A k \in 1..Len(trials) :
              /\ trials[k].score =
                    AcquisitionScore(trials[k].pred.mean, trials[k].pred.std,
                                     args.targetRemoval)
              /\ history[k].score = ToFixed(trials[k].score, 2)
              /\ ~Gt(trials[k].score, bestScore)
        /\ \/ bestScore = NegInf
           \/ \E k \in 1..Len(trials) : bestScore = trials[k].score

\* C18, witness: a run with a trial at or above the target and a trial below
\* it, one of them recorded with a score that is not the computed one.
C18_Witness ==
    /\ pc = "optimized"
    /\ \E j, k \in 1..Len(trials) :
          /\ Ge(trials[j].pred.mean, args.targetRemoval)
          /\ Lt(trials[k].pred.mean, args.targetRemoval)
    /\ \E k \in 1..Len(trials) : history[k].score # trials[k].score

\* C19 as claimed: predictRemoval on an entry's recorded pH, concentration
\* and time (competition false) returns the entry's predicted and std.
C19_AsClaimed ==
    pc \in {"optimizing", "optimized"} =>
        \A k \in 1..Len(history) :
            predictRemoval(args.adsorbent, args.pollutant, history[k].pH,
                           history[k].concentration, history[k].time, FALSE)
            = [mean |-> history[k].predicted, std |-> history[k].std]

\* C19 as amended: an entry's predicted and std are what predictRemoval
\* returns (competition false) for the pH, concentration and time as
\* sampled; the entry records the pH rounded to 2 decimals, the time and
\* the concentration rounded to 1.
C19_PredictionOfSample ==
    pc \in {"optimizing", "optimized"} =>
        \A k \in 1..Len(history) :
            /\ trials[k].pH = Sample(args.phRange, trials[k].u[1])
            /\ trials[k].time = Sample(args.timeRange, trials[k].u[2])
            /\ trials[k].conc = Sample(args.concRange, trials[k].u[3])
            /\ predictRemoval(args.adsorbent, args.pollutant, trials[k].pH,
                              trials[k].conc, trials[k].time, FALSE)
               = [mean |-> history[k].predicted, std |-> history[k].std]
            /\ history[k].pH = ToFixed(trials[k].pH, 2)
            /\ history[k].time = ToFixed(trials[k].time, 1)
            /\ history[k].concentration = ToFixed(trials[k].conc, 1)

\* C19, witness: an entry whose recorded pH and time are not the sampled
\* ones.
C19_Witness ==
    /\ pc = "optimized"
    /\ \E k \in 1..Len(history) :
          /\ history[k].pH # trials[k].pH
          /\ history[k].time # trials[k].time

\* C20: bayesianOptimize returns only after exactly nIter trials, and a run
\* that has started returns.
C20_FixedBudget ==
    /\ [](pc = "optimized" => (i = args.nIter /\ Len(trials) = args.nIter))
    /\ (pc = "optimizing") ~> (pc = "optimized")

\* C20, witness: a run of MaxIter trials has returned whose first trial was
\* already at or above the target.
C20_Witness ==
    /\ pc = "optimized"
    /\ args.nIter = MaxIter
    /\ Len(trials) = MaxIter
    /\ Ge(trials[1].pred.mean, args.targetRemoval)

\* C21: when the trials of a run are evaluated concurrently, in any
\* interleaving, each index with its own draws, and the best is then chosen
\* with the strictly-greater, first-wins-ties rule, the best and the history
\* are those the sequential loop returns for the same arguments and draws.
C21_ConcurrentEqualsSequential ==
    (/\ pc = "optimized"
     /\ reduced # None
     /\ args = reduced.args
     /\ DrawsSoFar = reduced.draws) => ret = reduced.res

\* C21, witness: the trials were not evaluated in the order of their index,
\* two of them tie for the best score, and the sequential loop has
\* returned for the same draws.
C21_Witness ==
    /\ pc = "optimized"
    /\ reduced # None
    /\ ~reduced.inOrder
    /\ args = reduced.args
    /\ DrawsSoFar = reduced.draws
    /\ Len(ret.history) = MaxIter
    /\ ret.best # Null
    /\ \E j, k \in 1..Len(trials) : j < k /\ trials[j].score = trials[k].score
    /\ \E j, k \in 1..Len(trials) : Lt(trials[j].score, trials[k].score)

\* C22: the Adsorbent Type contribution is the mean at pH 6, concentration
\* 10, time 15 of the material and the contaminant minus that of NC and the
\* contaminant, the Pollutant Type contribution is that mean minus the one
\* of the material and Cd(II); so Adsorbent Type is 0 when the material is
\* NC and Pollutant Type is 0 when the contaminant is Cd(II).
C22_TypeContributions ==
    pc = "explained" =>
        /\ Item("Adsorbent Type").value =
              ToFixed(Sub(Baseline(args.adsorbent, args.pollutant),
                          Baseline("NC", args.pollutant)), 2)
        /\ Item("Pollutant Type").value =
              ToFixed(Sub(Baseline(args.adsorbent, args.pollutant),
                          Baseline(args.adsorbent, "Cd(II)")), 2)
        /\ args.adsorbent = "NC" => NumEq(Item("Adsorbent Type").value, Zero)
        /\ args.pollutant = "Cd(II)" => NumEq(Item("Pollutant Type").value, Zero)

\* C23: the Competition item computeSHAP returns has value -3.2 and
\* absValue 3.2, whatever the material, the contaminant, the pH, the
\* concentration and the time.
C23_CompetitionConstant ==
    pc = "explained" =>
        /\ Item("Competition").value = Dec(-32, 1)
        /\ Item("Competition").absValue = Dec(32, 1)

\* C23, witness: computeSHAP has returned for a material, a contaminant, a
\* pH, a concentration and a time that are not those of the baseline, the
\* other contributions differing from 0.
C23_Witness ==
    /\ pc = "explained"
    /\ args.adsorbent = "NC"
    /\ args.pollutant = "Nap"
    /\ args.pH = Int2Num(8)
    /\ args.concentration = Int2Num(40)
    /\ args.time = Int2Num(30)
    /\ \A n \in {"Contact Time", "Initial pH", "Concentration", "Pollutant Type"} :
          ~NumEq(Item(n).value, Zero)
    /\ Item("Competition").value = Dec(-32, 1)

\* x lies within the range r
Within(x, r) == Le(r[1], x) /\ Le(x, r[2])

\* the range r widened by h at both ends
Widened(r, h) == <<Sub(r[1], h), Add(r[2], h)>>

\* the range r has min <= max and a finite width
Bounded(r) == Le(r[1], r[2]) /\ IsFin(Sub(r[2], r[1]))

\* C24 as claimed: every pH, time and concentration bayesianOptimize
\* samples, and every one it records in history, lies within its range
\* [min, max] whenever min <= max.
C24_AsClaimed ==
    pc \in {"optimizing", "optimized"} =>
        \A k \in 1..Len(trials) :
            /\ Le(args.phRange[1], args.phRange[2]) =>
                  /\ Within(trials[k].pH, args.phRange)
                  /\ Within(history[k].pH, args.phRange)
            /\ Le(args.timeRange[1], args.timeRange[2]) =>
                  /\ Within(trials[k].time, args.timeRange)
                  /\ Within(history[k].time, args.timeRange)
            /\ Le(args.concRange[1], args.concRange[2]) =>
                  /\ Within(trials[k].conc, args.concRange)
                  /\ Within(history[k].concentration, args.concRange)

\* C24 as amended: whenever min <= max and max - min is finite, every pH,
\* time and concentration sampled lies within [min, max]; history records
\* it rounded to 2, 1 and 1 decimals, which lies within the range widened
\* by 0.005, 0.05 and 0.05.
C24_SampledInRange ==
    pc \in {"optimizing", "optimized"} =>
        \A k \in 1..Len(trials) :
            /\ Bounded(args.phRange) =>
                  /\ Within(trials[k].pH, args.phRange)
                  /\ history[k].pH = ToFixed(trials[k].pH, 2)
                  /\ Within(history[k].pH, Widened(args.phRange, Dec(5, 3)))
            /\ Bounded(args.timeRange) =>
                  /\ Within(trials[k].time, args.timeRange)
                  /\ history[k].time = ToFixed(trials[k].time, 1)
                  /\ Within(history[k].time, Widened(args.timeRange, Dec(5, 2)))
            /\ Bounded(args.concRange) =>
                  /\ Within(trials[k].conc, args.concRange)
                  /\ history[k].concentration = ToFixed(trials[k].conc, 1)
                  /\ Within(history[k].concentration,
                            Widened(args.concRange, Dec(5, 2)))

\* C24, witness: a run has returned whose ranges have min < max and a
\* finite width, a sampled pH lying strictly inside its range and recorded
\* below the range's lower end.
C24_Witness ==
    /\ pc = "optimized"
    /\ Bounded(args.phRange) /\ Bounded(args.timeRange) /\ Bounded(args.concRange)
    /\ Lt(args.phRange[1], args.phRange[2])
    /\ \E k \in 1..Len(trials) :
          /\ Lt(args.phRange[1], trials[k].pH)
          /\ Lt(trials[k].pH, args.phRange[2])
          /\ Lt(history[k].pH, args.phRange[1])

\* the practical domain of OptimizationPanel: registered identifiers, a
\* target between 50 and 99, a pH range within [2, 8], a time range within
\* [0, 30]
Practical(a) ==
    /\ Resolvable(a)
    /\ Within(a.targetRemoval, <<Int2Num(50), Int2Num(99)>>)
    /\ Le(Int2Num(2), a.phRange[1]) /\ Le(a.phRange[1], a.phRange[2])
    /\ Le(a.phRange[2], Int2Num(8))
    /\ Le(Zero, a.timeRange[1]) /\ Le(a.timeRange[1], a.timeRange[2])
    /\ Le(a.timeRange[2], Int2Num(30))

\* C25: in the practical domain, a trial whose mean is below the target
\* never outscores a trial whose mean is at or above it; so whenever a
\* history entry has predicted >= targetRemoval, the returned best has
\* predicted >= targetRemoval.
C25_OnTargetWins ==
    /\ (pc \in {"optimizing", "optimized"} /\ Practical(args)) =>
          \A j, k \in 1..Len(trials) :
              (/\ Ge(trials[j].pred.mean, args.targetRemoval)
               /\ Lt(trials[k].pred.mean, args.targetRemoval))
              => Lt(trials[k].score, trials[j].score)
    /\ (/\ pc = "optimized"
        /\ Practical(args)
        /\ \E k \in 1..Len(ret.history) :
              Ge(ret.history[k].predicted, args.targetRemoval))
       => (ret.best # Null /\ Ge(ret.best.predicted, args.targetRemoval))

\* C25, witness: a run in the practical domain has returned whose first
\* and last trials are below the target and whose best is a trial at or
\* above it.
C25_Witness ==
    /\ pc = "optimized"
    /\ Practical(args)
    /\ Len(ret.history) >= 3
    /\ Lt(ret.history[1].predicted, args.targetRemoval)
    /\ Lt(ret.history[Len(ret.history)].predicted, args.targetRemoval)
    /\ ret.best # Null
    /\ Ge(ret.best.predicted, args.targetRemoval)

\* the target and the ranges of a run are finite numbers
FiniteInputs(a) ==
    /\ IsFin(a.targetRemoval)
    /\ \A r \in {a.phRange, a.timeRange, a.concRange} : IsFin(r[1]) /\ IsFin(r[2])

\* s is the maximum of the scores of the trials t: the score of one of
\* them, and >= the score of every one; -Infinity when there is none
MaximumOf(s, t) ==
    IF t = <<>> THEN s = NegInf
    ELSE /\ \E j \in 1..Len(t) : s = t[j].score
         /\ \A k \in 1..Len(t) : Ge(s, t[k].score)

\* C26: during bayesianOptimize, after the k-th iteration (k from 0 to
\* nIter) history has exactly k entries and bestScore is the maximum of the
\* first k scores as computed, -Infinity for k = 0; bestScore never
\* decreases from one iteration to the next.
C26_RunningMaximum ==
    /\ [](pc \in {"optimizing", "optimized"} =>
            /\ Len(history) = i
            /\ Len(trials) = i
            /\ MaximumOf(bestScore, trials))
    /\ [][pc = "optimizing" => Ge(bestScore', bestScore)]_vars

\* C27: for nIter >= 1 and finite numeric inputs the best bayesianOptimize
\* returns is not null and its pH, time, concentration, predicted and std
\* are those of one entry of the returned history; for nIter = 0 it
\* returns best = null and an empty history.
C27_BestIsAnEntry ==
    pc = "optimized" =>
        /\ (args.nIter >= 1 /\ FiniteInputs(args)) =>
              /\ ret.best # Null
              /\ \E j \in 1..Len(ret.history) : ret.best = SampleOf(ret.history[j])
        /\ args.nIter = 0 => (ret.best = Null /\ ret.history = <<>>)

\* the call the caller has just made, with argument f replaced by v
Varied(f, v) == Call([args EXCEPT ![f] = v]).res

\* C28: at contact time 0 predictRemoval returns, for registered
\* identifiers, a mean equal to the material's synergy bonus (5 for MNCJG,
\* 3 for NCJG, 0 for MNC, NC and MWM), whatever the contaminant, the pH, the
\* concentration and the competition flag.
C28_SynergyAtTimeZero ==
    pc = "predicted" =>
        \A n \in 1..Len(calls) :
            (Resolvable(calls[n].args) /\ NumEq(calls[n].args.time, Zero)) =>
                NumEq(calls[n].res.mean,
                      MODEL_PARAMS[calls[n].args.adsorbent].synergy)

\* C29: for registered identifiers the std predictRemoval returns depends
\* only on the material, the pH and the contact time: a call that differs
\* only in the contaminant (a registered one), the concentration or the
\* competition flag returns the same std.
C29_StdOfMaterialPhTime ==
    (pc = "predicted" /\ sweep = "none" /\ Resolvable(args)) =>
        /\ \A p \in DOMAIN POLLUTANT_MOD : Varied("pollutant", p).std = ret.std
        /\ \A c \in Range(ConcGrid) : Varied("concentration", c).std = ret.std
        /\ Varied("competition", ~args.competition).std = ret.std

\* C29, witness: predictRemoval has returned for registered identifiers,
\* and the contaminant, the concentration and the competition flag each
\* change the mean.
C29_Witness ==
    /\ pc = "predicted"
    /\ sweep = "none"
    /\ Resolvable(args)
    /\ \E p \in DOMAIN POLLUTANT_MOD : ~NumEq(Varied("pollutant", p).mean, ret.mean)
    /\ \E c \in Range(ConcGrid) : ~NumEq(Varied("concentration", c).mean, ret.mean)
    /\ ~NumEq(Varied("competition", ~args.competition).mean, ret.mean)
    /\ Varied("competition", ~args.competition).std = ret.std

\* C30: for registered identifiers and contact time >= 0, predictRemoval
\* with competition returns a mean <= the mean without it, the other inputs
\* being the same; the penalty 0.92 scales the product of the factors and
\* not the synergy bonus.
C30_CompetitionLowers ==
    (/\ pc = "predicted"
     /\ Resolvable(args)
     /\ Ge(args.time, Zero)
     /\ args.competition) =>
        /\ Le(ret.mean, Varied("competition", FALSE).mean)
        /\ \E m \in {LookupAdsorbent(args.adsorbent)},
              p \in {LookupPollutant(args.pollutant)} :
              ret.mean =
                  Round2(Clamp(Mul(BaseRemoval(m, p, Kinetic(m, args.time),
                                               PhEffect(p, args.pH),
                                               ConcEffect(m, p, args.concentration),
                                               One),
                                   Dec(92, 2)),
                               NumProp(m, "synergy")))

====
